---- MODULE Spec2Model ----
(***************************************************************************)
(* A model of ledcontroller/__init__.py: the LimitlessLED/MiLight command  *)
(* tables, the group router (_send_to_group / _send_to_all_groups), the    *)
(* pacing gate of _send_command, LedControllerPool.execute and batch_run.  *)
(*                                                                         *)
(* Bytes are the integers 0..255, a command is the sequence of its bytes   *)
(* before padding, and a frame is the padded 3-byte datagram.              *)
(***************************************************************************)
EXTENDS Integers, Sequences, FiniteSets, TLC

(***************************************************************************)
(* Bounds of the model.                                                    *)
(***************************************************************************)
\* largest repeat_commands given to the constructor
MaxRepeat == 2
\* largest number of commands handed to one batch_run
MaxBatch == 2
\* largest pause_between_commands, in clock ticks
MaxPause == 2
\* the clock of the timed specifications runs from Epoch to Epoch + Horizon
Horizon == 6
\* how much later than required a sleep or a clock read may return
MaxJitter == 1
\* number of gateways of the pool
NumControllers == 2
\* how far below 0 and above 100 the percents given to set_brightness reach
PercentMargin == 10

(***************************************************************************)
(* Values of the program.                                                  *)
(***************************************************************************)
\* Python's None, as the default of every group parameter
None == 0 - 100
\* a missing table entry: the None handed to _send_command
NoneCommand == <<0 - 1>>
\* time.time() at construction: wall-clock time is far from the initial
\* last_command_at = 0, so the first command never waits
Epoch == MaxPause + 1

Groups == 1 .. 4
Controllers == 0 .. (NumControllers - 1)
BulbTypes == {"rgbw", "white"}

WHITE_COMMANDS ==
    [ all_on          |-> <<53>>,
      all_off         |-> <<57>>,
      all_full        |-> <<181>>,
      all_nightmode   |-> <<185>>,
      warmer          |-> <<62>>,
      cooler          |-> <<63>>,
      brightness_up   |-> <<60>>,
      brightness_down |-> <<52>> ]

WHITE_GROUP_X_ON        == << <<56>>,  <<61>>,  <<55>>,  <<50>>  >>
WHITE_GROUP_X_OFF       == << <<59>>,  <<51>>,  <<58>>,  <<54>>  >>
WHITE_GROUP_X_FULL      == << <<184>>, <<189>>, <<183>>, <<178>> >>
WHITE_GROUP_X_NIGHTMODE == << <<187>>, <<179>>, <<186>>, <<182>> >>

RGBW_GROUP_X_ON         == << <<69>>,  <<71>>,  <<73>>,  <<75>>  >>
RGBW_GROUP_X_OFF        == << <<70>>,  <<72>>,  <<74>>,  <<76>>  >>
RGBW_GROUP_X_TO_WHITE   == << <<197>>, <<199>>, <<201>>, <<203>> >>
RGBW_GROUP_X_NIGHTMODE  == << <<198>>, <<200>>, <<202>>, <<204>> >>

RGBW_COMMANDS ==
    [ all_on                 |-> <<66>>,
      all_off                |-> <<65>>,
      all_white              |-> <<194>>,
      disco                  |-> <<77>>,
      disco_faster           |-> <<68>>,
      disco_slower           |-> <<67>>,
      all_nightmode          |-> <<193>>,
      color_by_int           |-> <<64>>,
      color_to_violet        |-> <<64, 0>>,
      color_to_royal_blue    |-> <<64, 16>>,
      color_to_baby_blue     |-> <<64, 32>>,
      color_to_aqua          |-> <<64, 48>>,
      color_to_royal_mint    |-> <<64, 64>>,
      color_to_seafoam_green |-> <<64, 80>>,
      color_to_green         |-> <<64, 96>>,
      color_to_lime_green    |-> <<64, 112>>,
      color_to_yellow        |-> <<64, 128>>,
      color_to_yellow_orange |-> <<64, 144>>,
      color_to_orange        |-> <<64, 160>>,
      color_to_red           |-> <<64, 176>>,
      color_to_pink          |-> <<64, 192>>,
      color_to_fusia         |-> <<64, 208>>,
      color_to_lilac         |-> <<64, 224>>,
      color_to_lavendar      |-> <<64, 240>> ]

\* the four-element default of kwargs.get("%s_cmd" % type, [None, None, None, None])
NoneTable == << NoneCommand, NoneCommand, NoneCommand, NoneCommand >>

\* dict.get(name): the entry, or None when the table has none
WhiteGet(name) ==
    IF name \in DOMAIN WHITE_COMMANDS THEN WHITE_COMMANDS[name] ELSE NoneCommand

RgbwGet(name) ==
    IF name \in DOMAIN RGBW_COMMANDS THEN RGBW_COMMANDS[name] ELSE NoneCommand

(***************************************************************************)
(* Pure functions.                                                         *)
(***************************************************************************)
Max(a, b) == IF a >= b THEN a ELSE b
Min(a, b) == IF a <= b THEN a ELSE b

\* the padding of _send_command without the zero byte
EncodeNoZero(cmd) == IF Len(cmd) <= 2 THEN cmd \o <<85>> ELSE cmd

\* the padding of _send_command: one byte gets 0x00, two bytes get 0x55
Encode(cmd) ==
    LET c1 == IF Len(cmd) = 1 THEN cmd \o <<0>> ELSE cmd
    IN  IF Len(c1) = 2 THEN c1 \o <<85>> ELSE c1

\* get_brightness_level without the clamp
get_brightness_level_unclamped(percent) ==
    << percent, 2 + ((percent * 25) \div 100) >>

\* get_brightness_level: (clamped percent, device value)
get_brightness_level(percent) ==
    LET p == Min(100, Max(0, percent))
    IN  << p, 2 + ((p * 25) \div 100) >>

\* A float is given in hundredths: FloatArg(h) is the double nearest to h/100.
\* For these hundredths the double product (h/100) * 100 falls just below h
\* (0.29 * 100 = 28.999999999999996), so int() of it is one less.
\* The same holds for -h/100: int() truncates towards zero.  The table lists
\* every such h up to 1000.
RoundedDown ==
    { 29, 57, 58, 113, 114, 115, 116, 201, 203, 205, 207, 226, 228, 230,
      232, 251, 253, 255, 402, 406, 410, 414, 427, 431, 435, 439, 452, 456,
      460, 464, 477, 481, 485, 489, 502, 506, 510, 803, 804, 812, 820, 828,
      829, 837, 845, 853, 854, 862, 870, 878, 879, 887, 895, 903, 904, 912,
      920, 928, 929, 937, 945, 953, 954, 962, 970, 978, 979, 987, 995 }

\* int(percent * 100) of the double nearest to h/100, for the floats from
\* -10.0 to 1.0 (set_brightness multiplies no float above 1.0)
FloatTimes100(h) ==
    CASE 0 <= h /\ h <= 100 -> (IF h \in RoundedDown THEN h - 1 ELSE h)
      [] (0 - 1000) <= h /\ h < 0 -> (IF (0 - h) \in RoundedDown THEN h + 1 ELSE h)

\* BrightnessPercent taking every float for a fraction
BrightnessPercentFraction(arg) ==
    IF arg.kind = "float"
    THEN IF arg.val > 100 THEN arg.val ELSE FloatTimes100(arg.val)
    ELSE arg.val

\* the int percent set_brightness derives from its argument: int(percent)
\* of a float above 1.0, int(percent * 100) of any other float
BrightnessPercent(arg) ==
    IF arg.kind = "float"
    THEN IF arg.val > 100
         THEN arg.val \div 100
         ELSE FloatTimes100(arg.val)
    ELSE arg.val

\* the channel values rgb_to_hue is modelled for
HueLevels == {0, 1, 2, 29, 32, 33, 128, 255}

\* The code computes the hue in doubles.  Where the exact value of
\* ((1 - h + 2/3) mod 1) * 256 is an integer, the double can fall just below
\* it, and math.floor gives one less.  These are the triples over HueLevels
\* where it does.
HueRoundedDown ==
    { <<29, 32, 33>>, <<33, 1, 2>>, <<33, 1, 29>>, <<33, 1, 32>> }

\* rgb_to_hue for channel values in HueLevels: colorsys.rgb_to_hls gives the
\* hue h = (N / 6D) mod 1, and the result is floor(((1 - h + 2/3) mod 1) * 256),
\* one less for the triples of HueRoundedDown
rgb_to_hue(red, green, blue) ==
    LET maxc == Max(red, Max(green, blue))
        minc == Min(red, Min(green, blue))
        rangec == maxc - minc
        D == IF rangec = 0 THEN 1 ELSE rangec
        N == IF rangec = 0 THEN 0
             ELSE IF red = maxc THEN green - blue
             ELSE IF green = maxc THEN 2 * rangec + (blue - red)
             ELSE 4 * rangec + (red - green)
        exact == (256 * ((10 * D - N) % (6 * D))) \div (6 * D)
    IN  CASE {red, green, blue} \subseteq HueLevels ->
                 IF << red, green, blue >> \in HueRoundedDown THEN exact - 1 ELSE exact

(***************************************************************************)
(* State.  The fields of each LedController are functions of the           *)
(* controller's index; index 0 is also the client used on its own.         *)
(***************************************************************************)
VARIABLES
    group,                  \* LedController.group: the bulb type of each key
    has_white,              \* LedController.has_white
    has_rgbw,               \* LedController.has_rgbw
    repeat_commands,        \* LedController.repeat_commands
    pause_between_commands, \* LedController.pause_between_commands, in ticks
    last_command_at,        \* LedController.last_command_at
    pool_last_command_at,   \* LedControllerPool.last_command_at
    now,                    \* the clock read by time.time()
    call,                   \* the public call made last: what was called, and
                            \* repeat_commands when it was entered
    invoked,                \* the operations it ran, each with the
                            \* repeat_commands in force when it started
    pending,                \* commands the running call has still to send
    sent,                   \* frames transmitted by the call, in order (with
                            \* threads: since a call was entered last)
    raised,                 \* the error the call raised, or "none"
    retval,                 \* what the call returned
    sent_at,                \* clock value stored (line 178) for the frame
                            \* transmitted last
    prev_sent_at,           \* and of the one before it
    nsent,                  \* frames transmitted so far, counted up to 2
    pc,                     \* "idle", or "running" while a call is sending
                            \* ("sleeping" between lines 174 and 178);
                            \* "new" before the client is constructed
    kwargs,                 \* the keyword arguments given to the constructor
    open_sockets,           \* sockets _send_command has created and not closed
    th,                     \* the threads of the caller, each with its place
                            \* in the call it is making
    serialized,             \* the caller lets one thread at a time make a call
    pooled,                 \* the threads go through LedControllerPool.execute
    wake                    \* while the running call is between lines 174 and
                            \* 178: the clock value until which it sleeps

vars == << group, has_white, has_rgbw, repeat_commands, pause_between_commands,
           last_command_at, pool_last_command_at, now, call, invoked, pending,
           sent, raised, retval, sent_at, prev_sent_at, nsent, pc, kwargs,
           open_sockets, th, serialized, pooled, wake >>

config == << group, has_white, has_rgbw, pause_between_commands, kwargs >>
\* the sockets left open and the threads of the caller
env == << open_sockets, th, serialized, pooled, wake >>
pacing == << last_command_at, pool_last_command_at, now, sent_at, prev_sent_at, nsent >>

(***************************************************************************)
(* The result of running a piece of the router: the commands it hands to   *)
(* the socket, in order, and the error that ended it.                      *)
(***************************************************************************)
Ok(cmds) == [cmds |-> cmds, raised |-> "none"]
Raise(err) == [cmds |-> << >>, raised |-> err]

\* r1; r2 -- r2 does not run when r1 raised
Then(r1, r2) ==
    IF r1.raised # "none"
    THEN r1
    ELSE [cmds |-> r1.cmds \o r2.cmds, raised |-> r2.raised]

\* for _ in range(k): r
RECURSIVE Times(_, _)
Times(r, k) == IF k <= 0 THEN Ok(<< >>) ELSE Then(r, Times(r, k - 1))

\* _send_command, its effect on the wire: None is dropped, anything else goes out
send_command(input_command) ==
    IF input_command = NoneCommand THEN Ok(<< >>) ELSE Ok(<< input_command >>)

\* IsAll taking every group below 1 for "all groups"
IsAllLoose(g) == g = None \/ g <= 0

\* group is None or group == 0
IsAll(g) == g = None \/ g = 0

get_group_type(c, g) == group[c][g]

\* struct.pack("B", color) joined to the color_by_int opcode
ColorByInt(color) == RGBW_COMMANDS["color_by_int"] \o << color >>

send_to_all_groups(c, kw) ==
    Then(IF has_white[c]
         THEN send_command(WhiteGet(kw.command))
         ELSE Ok(<< >>),
         IF has_rgbw[c]
         THEN send_command(IF kw.command = "color_by_int"
                           THEN ColorByInt(kw.color)
                           ELSE RgbwGet(kw.command))
         ELSE Ok(<< >>))

\* the keyword arguments of _send_to_group; retries = 0 stands for "not given"
Kw(command, color, per_group, white_cmd, rgbw_cmd, send_on, retries) ==
    [ command |-> command, color |-> color, per_group |-> per_group,
      white_cmd |-> white_cmd, rgbw_cmd |-> rgbw_cmd,
      send_on |-> send_on, retries |-> retries ]

FlatKw(command, send_on, retries) ==
    Kw(command, 0, FALSE, NoneTable, NoneTable, send_on, retries)

PerGroupKw(white_cmd, rgbw_cmd, send_on, retries) ==
    Kw("", 0, TRUE, white_cmd, rgbw_cmd, send_on, retries)

RECURSIVE send_to_group(_, _, _, _)
RECURSIVE on(_, _, _)

\* one pass of the body of the retry loop of _send_to_group
SendToGroupOnce(c, g, kw, rc) ==
    Then(IF kw.send_on THEN on(c, g, rc) ELSE Ok(<< >>),
         IF IsAll(g)
         THEN send_to_all_groups(c, kw)
         ELSE IF g < 1 \/ g > 4
         THEN Raise("InvalidGroup")
         ELSE IF kw.per_group
         THEN send_command((IF get_group_type(c, g) = "white"
                            THEN kw.white_cmd ELSE kw.rgbw_cmd)[g])   \* Python's [group - 1], sequences here start at 1
         ELSE IF get_group_type(c, g) = "white"
         THEN send_command(WhiteGet(kw.command))
         ELSE send_command(IF kw.command = "color_by_int"
                           THEN ColorByInt(kw.color)
                           ELSE RgbwGet(kw.command)))

\* Retries ignoring repeat_commands
RetriesOnce(kw, rc) == 1

\* retries = kwargs.get("retries", self.repeat_commands); rc is the
\* repeat_commands in force
Retries(kw, rc) == IF kw.retries = 0 THEN rc ELSE kw.retries

send_to_group(c, g, kw, rc) ==
    Times(SendToGroupOnce(c, g, kw, rc), Retries(kw, rc))

on(c, g, rc) ==
    IF IsAll(g)
    THEN send_to_group(c, g, FlatKw("all_on", FALSE, 0), rc)
    ELSE send_to_group(c, g, PerGroupKw(WHITE_GROUP_X_ON, RGBW_GROUP_X_ON, FALSE, 0), rc)

off(c, g, rc) ==
    IF IsAll(g)
    THEN send_to_group(c, g, FlatKw("all_off", FALSE, 0), rc)
    ELSE send_to_group(c, g, PerGroupKw(WHITE_GROUP_X_OFF, RGBW_GROUP_X_OFF, FALSE, 0), rc)

white(c, g, rc) ==
    IF IsAll(g)
    THEN send_to_group(c, g, FlatKw("all_white", TRUE, 0), rc)
    ELSE send_to_group(c, g, PerGroupKw(NoneTable, RGBW_GROUP_X_TO_WHITE, TRUE, 0), rc)

(***************************************************************************)
(* Arguments.  A color or brightness argument is a record of one shape:    *)
(* kind "name" (a color keyword), "int", "rgb" (an RGB namedtuple),        *)
(* "float" (val in hundredths) or "none".                                 *)
(***************************************************************************)
Arg(kind, name, val, rgb) == [kind |-> kind, name |-> name, val |-> val, rgb |-> rgb]
NoArg == Arg("none", "", 0, <<0, 0, 0>>)
NameArg(s) == Arg("name", s, 0, <<0, 0, 0>>)
IntArg(i) == Arg("int", "", i, <<0, 0, 0>>)
FloatArg(hundredths) == Arg("float", "", hundredths, <<0, 0, 0>>)
RgbArg(r, g, b) == Arg("rgb", "", 0, <<r, g, b>>)

Command(op, g, arg) == [op |-> op, group |-> g, arg |-> arg]

\* set_color without its checks of the color
set_color_unchecked(c, color, g, rc) ==
    IF color.kind = "name" /\ color.name = "white"
    THEN white(c, g, rc)
    ELSE IF color.kind = "rgb"
    THEN IF color.rgb = <<0, 0, 0>>
         THEN off(c, g, rc)
         ELSE IF color.rgb = <<255, 255, 255>>
         THEN white(c, g, rc)
         ELSE send_to_group(c, g,
                  Kw("color_by_int", rgb_to_hue(color.rgb[1], color.rgb[2], color.rgb[3]),
                     FALSE, NoneTable, NoneTable, TRUE, 0), rc)
    ELSE IF color.kind = "int"
    THEN send_to_group(c, g,
             Kw("color_by_int", color.val, FALSE, NoneTable, NoneTable, TRUE, 0), rc)
    ELSE send_to_group(c, g, FlatKw("color_to_" \o color.name, TRUE, 0), rc)

\* set_color handing every color to the hue converter
set_color_converted(c, color, g, rc) ==
    send_to_group(c, g,
        Kw("color_by_int", rgb_to_hue(color.rgb[1], color.rgb[2], color.rgb[3]),
           FALSE, NoneTable, NoneTable, TRUE, 0), rc)

set_color(c, color, g, rc) ==
    IF color.kind = "name" /\ color.name = "white"
    THEN white(c, g, rc)
    ELSE IF color.kind = "rgb"
    THEN IF color.rgb = <<0, 0, 0>>
         THEN off(c, g, rc)
         ELSE IF color.rgb = <<255, 255, 255>>
         THEN white(c, g, rc)
         ELSE send_to_group(c, g,
                  Kw("color_by_int", rgb_to_hue(color.rgb[1], color.rgb[2], color.rgb[3]),
                     FALSE, NoneTable, NoneTable, TRUE, 0), rc)
    ELSE IF color.kind = "int"
    THEN IF color.val < 0 \/ color.val > 255
         THEN Raise("InvalidColor")
         ELSE send_to_group(c, g,
                  Kw("color_by_int", color.val, FALSE, NoneTable, NoneTable, TRUE, 0), rc)
    ELSE IF ("color_to_" \o color.name) \notin DOMAIN RGBW_COMMANDS
         THEN Raise("InvalidColor")
         ELSE send_to_group(c, g, FlatKw("color_to_" \o color.name, TRUE, 0), rc)

\* brightness_up limited to one send
brightness_up_once(c, g, rc) == send_to_group(c, g, FlatKw("brightness_up", TRUE, 1), rc)

brightness_up(c, g, rc)   == send_to_group(c, g, FlatKw("brightness_up", TRUE, 0), rc)
brightness_down(c, g, rc) == send_to_group(c, g, FlatKw("brightness_down", TRUE, 0), rc)
cooler(c, g, rc)          == send_to_group(c, g, FlatKw("cooler", TRUE, 0), rc)
warmer(c, g, rc)          == send_to_group(c, g, FlatKw("warmer", TRUE, 0), rc)

\* self.on(group), then the brightness command b"\x4e" + value, sent once
set_brightness(c, percent, g, rc) ==
    Then(on(c, g, rc),
         send_command(<< 78, get_brightness_level(BrightnessPercent(percent))[2] >>))

\* disco left to the default number of retries
disco_repeated(c, g, rc) == send_to_group(c, g, FlatKw("disco", TRUE, 0), rc)

disco(c, g, rc)        == send_to_group(c, g, FlatKw("disco", TRUE, 1), rc)
disco_faster(c, g, rc) == send_to_group(c, g, FlatKw("disco_faster", TRUE, 1), rc)
disco_slower(c, g, rc) == send_to_group(c, g, FlatKw("disco_slower", TRUE, 1), rc)

\* nightmode leaving send_on at its default
nightmode_auto_on(c, g, rc) ==
    Then(off(c, g, rc),
         IF IsAll(g)
         THEN Then(IF has_rgbw[c]
                   THEN send_command(RGBW_COMMANDS["all_nightmode"])
                   ELSE Ok(<< >>),
                   IF has_white[c]
                   THEN send_command(WHITE_COMMANDS["all_nightmode"])
                   ELSE Ok(<< >>))
         ELSE send_to_group(c, g,
                  PerGroupKw(WHITE_GROUP_X_NIGHTMODE, RGBW_GROUP_X_NIGHTMODE, TRUE, 1), rc))

nightmode(c, g, rc) ==
    Then(off(c, g, rc),
         IF IsAll(g)
         THEN Then(IF has_rgbw[c]
                   THEN send_command(RGBW_COMMANDS["all_nightmode"])
                   ELSE Ok(<< >>),
                   IF has_white[c]
                   THEN send_command(WHITE_COMMANDS["all_nightmode"])
                   ELSE Ok(<< >>))
         ELSE send_to_group(c, g,
                  PerGroupKw(WHITE_GROUP_X_NIGHTMODE, RGBW_GROUP_X_NIGHTMODE, FALSE, 1), rc))

\* getattr(controller, op)(...): the public operations that transmit
Dispatch(c, cmd, rc) ==
    CASE cmd.op = "on"              -> on(c, cmd.group, rc)
      [] cmd.op = "off"             -> off(c, cmd.group, rc)
      [] cmd.op = "white"           -> white(c, cmd.group, rc)
      [] cmd.op = "set_color"       -> set_color(c, cmd.arg, cmd.group, rc)
      [] cmd.op = "set_brightness"  -> set_brightness(c, cmd.arg, cmd.group, rc)
      [] cmd.op = "brightness_up"   -> brightness_up(c, cmd.group, rc)
      [] cmd.op = "brightness_down" -> brightness_down(c, cmd.group, rc)
      [] cmd.op = "cooler"          -> cooler(c, cmd.group, rc)
      [] cmd.op = "warmer"          -> warmer(c, cmd.group, rc)
      [] cmd.op = "disco"           -> disco(c, cmd.group, rc)
      [] cmd.op = "disco_faster"    -> disco_faster(c, cmd.group, rc)
      [] cmd.op = "disco_slower"    -> disco_slower(c, cmd.group, rc)
      [] cmd.op = "nightmode"       -> nightmode(c, cmd.group, rc)

\* what the operation returns when it does not raise
ReturnValue(cmd) ==
    CASE cmd.op = "set_color"      -> cmd.arg
      [] cmd.op = "set_brightness" ->
             IntArg(get_brightness_level(BrightnessPercent(cmd.arg))[1])
      [] OTHER                     -> NoArg

(***************************************************************************)
(* batch_run: repeat_commands is set to 1, the whole list is run           *)
(* original_retries times, and repeat_commands is set back -- unless a     *)
(* command raised, which leaves the method at once.                        *)
(***************************************************************************)
Invocation(cmd, rc) == [cmd |-> cmd, repeat_commands |-> rc]

\* the state of the two loops: the result so far and the invocations made
BatchAcc(res, inv) == [res |-> res, inv |-> inv]

\* for command in commands: cmd(*args), from position i, with repeat_commands = 1
RECURSIVE BatchInner(_, _, _, _)
BatchInner(c, commands, i, acc) ==
    IF i > Len(commands) \/ acc.res.raised # "none"
    THEN acc
    ELSE BatchInner(c, commands, i + 1,
             BatchAcc(Then(acc.res, Dispatch(c, commands[i], 1)),
                      Append(acc.inv, Invocation(commands[i], 1))))

\* for _ in range(original_retries): ...
RECURSIVE BatchOuter(_, _, _, _)
BatchOuter(c, commands, k, acc) ==
    IF k <= 0 \/ acc.res.raised # "none"
    THEN acc
    ELSE BatchOuter(c, commands, k - 1, BatchInner(c, commands, 1, acc))

\* batch_run repeating each command in place before it moves to the next
RECURSIVE EachInPlace(_, _, _)
EachInPlace(commands, n, i) ==
    IF i > Len(commands) THEN << >>
    ELSE [k \in 1 .. n |-> commands[i]] \o EachInPlace(commands, n, i + 1)

batch_run_in_place(c, commands, original_retries) ==
    BatchInner(c, EachInPlace(commands, original_retries, 1), 1, BatchAcc(Ok(<< >>), << >>))

batch_run(c, commands, original_retries) ==
    BatchOuter(c, commands, original_retries, BatchAcc(Ok(<< >>), << >>))

\* repeat_commands after batch_run: line 466 is reached only without an error
BatchRepeatAfter(res, original_retries) ==
    IF res.raised # "none" THEN 1 ELSE original_retries

(***************************************************************************)
(* Inputs.                                                                 *)
(***************************************************************************)
\* groups given to on, off, white and nightmode, and to the other operations
GroupArgs == {None, 0, 0 - 1, 5} \cup Groups
ShortGroupArgs == {None, 0, 0 - 1, 5, 1}
GroupKeyArgs == {1, 2}
\* keys handed to set_group_type when the key is unconstrained: a group and a
\* key that is no group
AnyKeyArgs == {1, 5}
BulbTypeArgs == BulbTypes \cup {"asdf"}
ColorArgs ==
    { NameArg("white"), NameArg("red"), NameArg("asdf"),
      IntArg(0 - 1), IntArg(0), IntArg(156), IntArg(255), IntArg(256),
      RgbArg(0, 0, 0), RgbArg(255, 255, 255), RgbArg(255, 0, 0), RgbArg(29, 32, 33) }
BrightnessArgs == { IntArg(0 - 5), IntArg(50), IntArg(150), FloatArg(10), FloatArg(5000) }
BatchCommands ==
    { Command("set_color", 1, NameArg("red")),
      Command("set_brightness", 2, IntArg(10)),
      Command("off", 5, NoArg) }

RECURSIVE SeqsUpTo(_, _)
SeqsUpTo(S, k) ==
    IF k = 0 THEN { << >> }
    ELSE LET shorter == SeqsUpTo(S, k - 1)
         IN  shorter \cup { Append(q, x) : q \in shorter, x \in S }
Batches == SeqsUpTo(BatchCommands, MaxBatch)

\* the group types the test suite constructs: rgbw only, white only, combined
TestSetups ==
    { [g \in Groups |-> "rgbw"],
      [g \in Groups |-> "white"],
      [g \in Groups |-> IF g % 2 = 1 THEN "rgbw" ELSE "white"] }

(***************************************************************************)
(* The record of a call.                                                   *)
(***************************************************************************)
CallRecord(c, op, g, arg, batch, pool) ==
    [ ctrl |-> c, op |-> op, group |-> g, arg |-> arg, batch |-> batch,
      repeat_commands |-> repeat_commands[c], pool |-> pool, index |-> c ]

NoCall == [ ctrl |-> 0, op |-> "none", group |-> None, arg |-> NoArg,
            batch |-> << >>, repeat_commands |-> 0, pool |-> FALSE, index |-> 0 ]

Frames(cmds) == [i \in 1 .. Len(cmds) |-> Encode(cmds[i])]

(***************************************************************************)
(* A whole call as one step.  Every command of the call goes through the   *)
(* gate of _send_command: the first frame leaves once the pause since      *)
(* last_command_at has passed, each later one a pause after the one        *)
(* before, and each send stores its time in last_command_at.               *)
(***************************************************************************)
Transmit(c, cmds) ==
    LET k == Len(cmds)
        p == pause_between_commands[c]
        first == Max(now, last_command_at[c] + p)
        final == first + (k - 1) * p
    IN  /\ sent' = Frames(cmds)
        /\ pending' = << >>
        /\ pc' = "idle"
        /\ IF k = 0
           THEN UNCHANGED << last_command_at, now, sent_at, prev_sent_at, nsent >>
           ELSE /\ last_command_at' = [last_command_at EXCEPT ![c] = final]
                /\ now' = final
                /\ sent_at' = final
                /\ prev_sent_at' = IF k = 1 THEN sent_at ELSE final - p
                /\ nsent' = Min(2, nsent + k)
        /\ UNCHANGED pool_last_command_at

\* a public operation that transmits, called on controller c
Call(c, op, g, arg) ==
    /\ pc = "idle"
    /\ LET cmd == Command(op, g, arg)
       IN  \E res \in { Dispatch(c, cmd, repeat_commands[c]) } :
               /\ call' = CallRecord(c, op, g, arg, << >>, FALSE)
               /\ invoked' = << Invocation(cmd, repeat_commands[c]) >>
               /\ raised' = res.raised
               /\ retval' = IF res.raised = "none" THEN ReturnValue(cmd) ELSE NoArg
               /\ Transmit(c, res.cmds)
               /\ UNCHANGED << config, env, repeat_commands >>

On(c)             == \E g \in GroupArgs : Call(c, "on", g, NoArg)
Off(c)            == \E g \in GroupArgs : Call(c, "off", g, NoArg)
White(c)          == \E g \in GroupArgs : Call(c, "white", g, NoArg)
SetColor(c)       == \E g \in ShortGroupArgs, a \in ColorArgs :
                         Call(c, "set_color", g, a)
SetBrightness(c)  == \E g \in ShortGroupArgs, a \in BrightnessArgs :
                         Call(c, "set_brightness", g, a)
BrightnessUp(c)   == \E g \in ShortGroupArgs : Call(c, "brightness_up", g, NoArg)
BrightnessDown(c) == \E g \in ShortGroupArgs : Call(c, "brightness_down", g, NoArg)
Cooler(c)         == \E g \in ShortGroupArgs : Call(c, "cooler", g, NoArg)
Warmer(c)         == \E g \in ShortGroupArgs : Call(c, "warmer", g, NoArg)
Disco(c)          == \E g \in ShortGroupArgs : Call(c, "disco", g, NoArg)
DiscoFaster(c)    == \E g \in ShortGroupArgs : Call(c, "disco_faster", g, NoArg)
DiscoSlower(c)    == \E g \in ShortGroupArgs : Call(c, "disco_slower", g, NoArg)
Nightmode(c)      == \E g \in GroupArgs : Call(c, "nightmode", g, NoArg)

\* the dict with every key set to bulb_type
GroupWithAll(c, g, bulb_type) ==
    [k \in (DOMAIN group[c]) \cup {g} |-> bulb_type]

\* the dict after self.group[g] = bulb_type
GroupWith(c, g, bulb_type) ==
    [k \in (DOMAIN group[c]) \cup {g} |-> IF k = g THEN bulb_type ELSE group[c][k]]

\* set_group_type(g, bulb_type) with g drawn from keys
SetGroupTypeIn(c, keys) ==
    \E g \in keys, bulb_type \in BulbTypeArgs :
        /\ pc = "idle"
        /\ call' = CallRecord(c, "set_group_type", g, NameArg(bulb_type), << >>, FALSE)
        /\ invoked' = << >>
        /\ sent' = << >>
        /\ retval' = NoArg
        /\ IF bulb_type \notin BulbTypes
           THEN /\ raised' = "InvalidBulbType"
                /\ UNCHANGED << group, has_white, has_rgbw >>
           ELSE /\ raised' = "none"
                /\ group' = [group EXCEPT ![c] = GroupWith(c, g, bulb_type)]
                /\ has_white' = [has_white EXCEPT
                       ![c] = \E k \in DOMAIN group'[c] : group'[c][k] = "white"]
                /\ has_rgbw' = [has_rgbw EXCEPT
                       ![c] = \E k \in DOMAIN group'[c] : group'[c][k] = "rgbw"]
        /\ UNCHANGED << repeat_commands, pause_between_commands, pacing, pending, pc,
                        kwargs, env >>

SetGroupType(c) == SetGroupTypeIn(c, GroupKeyArgs)

\* set_group_type with any key: the code does not look at the key
SetGroupTypeAny(c) == SetGroupTypeIn(c, AnyKeyArgs)

BatchRun(c) ==
    \E commands \in Batches :
        /\ pc = "idle"
        /\ \E out \in { batch_run(c, commands, repeat_commands[c]) } :
               /\ call' = CallRecord(c, "batch_run", None, NoArg, commands, FALSE)
               /\ invoked' = out.inv
               /\ raised' = out.res.raised
               /\ retval' = NoArg
               /\ repeat_commands' = [repeat_commands EXCEPT
                      ![c] = BatchRepeatAfter(out.res, repeat_commands[c])]
               /\ Transmit(c, out.res.cmds)
               /\ UNCHANGED << config, env >>

(***************************************************************************)
(* Spec: one LedController (index 0) as the test suite builds it, with     *)
(* pause_between_commands = 0, used from one thread.                       *)
(***************************************************************************)
\* the keyword arguments port, repeat_commands, pause_between_commands and
\* group_1 .. group_4 of the constructor
Kwargs(port, repeat, pause, types) ==
    [ port |-> port, repeat_commands |-> repeat,
      pause_between_commands |-> pause, groups |-> types ]

\* the threads of the caller
Threads == {1, 2}

\* a thread that is in no call
IdleThread == [ pc |-> "idle", ctrl |-> 0, pending |-> << >>, clock |-> 0,
                wake |-> 0, slept |-> FALSE, raises |-> "none" ]

\* the clients as constructed, whoever calls them
InitClients(setups, repeats, pauses) ==
    \E types \in setups, n \in repeats, p \in pauses :
        /\ kwargs = Kwargs(8899, n, p, types)
        /\ group = [c \in Controllers |-> types]
        /\ has_white = [c \in Controllers |-> \E g \in Groups : group[c][g] = "white"]
        /\ has_rgbw = [c \in Controllers |-> \E g \in Groups : group[c][g] = "rgbw"]
        /\ repeat_commands = [c \in Controllers |-> n]
        /\ pause_between_commands = [c \in Controllers |-> p]
        /\ last_command_at = [c \in Controllers |-> 0]
        /\ pool_last_command_at = 0
        /\ now = Epoch
        /\ call = NoCall
        /\ invoked = << >>
        /\ pending = << >>
        /\ sent = << >>
        /\ raised = "none"
        /\ retval = NoArg
        /\ sent_at = 0
        /\ prev_sent_at = 0
        /\ nsent = 0
        /\ pc = "idle"
        /\ open_sockets = 0
        /\ th = [t \in Threads |-> IdleThread]
        /\ wake = 0

\* the clients used by one caller at a time, each on its own
InitWith(setups, repeats, pauses) ==
    /\ InitClients(setups, repeats, pauses)
    /\ serialized = TRUE
    /\ pooled = FALSE

Init == InitWith(TestSetups, 1 .. MaxRepeat, {0})

Next ==
    \/ On(0)
    \/ Off(0)
    \/ White(0)
    \/ SetColor(0)
    \/ SetBrightness(0)
    \/ BrightnessUp(0)
    \/ BrightnessDown(0)
    \/ Cooler(0)
    \/ Warmer(0)
    \/ Disco(0)
    \/ DiscoFaster(0)
    \/ DiscoSlower(0)
    \/ Nightmode(0)
    \/ SetGroupType(0)
    \/ BatchRun(0)

Spec == Init /\ [][Next]_vars

(***************************************************************************)
(* SpecKeys: the same client, with set_group_type given keys outside 1..4  *)
(* as well, which the code accepts.                                        *)
(***************************************************************************)
NextKeys ==
    \/ SetGroupTypeAny(0)
    \/ On(0)
    \/ Off(0)
    \/ White(0)
    \/ SetColor(0)
    \/ BrightnessUp(0)
    \/ BrightnessDown(0)
    \/ Cooler(0)
    \/ Warmer(0)
    \/ Disco(0)
    \/ DiscoFaster(0)
    \/ DiscoSlower(0)
    \/ Nightmode(0)

SpecKeys == Init /\ [][NextKeys]_vars

(***************************************************************************)
(* SpecNew: the constructor, called with valid and invalid keyword         *)
(* arguments, followed by calls on the client it built.                    *)
(***************************************************************************)
PortArgs == {0, 1, 8899, 65535, 65536}
RepeatArgs == (0 - 1) .. MaxRepeat
PauseArgs == {0 - 1, 0}
\* group_1 .. group_4: the setups of the test suite, and one with a bulb type
\* that does not exist
GroupKwargs == TestSetups \cup { << "asdf", "rgbw", "rgbw", "rgbw" >> }

\* repeat_commands stored as it was given
StoredRepeatAsGiven(kw) == kw.repeat_commands

\* self.repeat_commands after "if self.repeat_commands == 0: ... = 1"
StoredRepeat(kw) == IF kw.repeat_commands = 0 THEN 1 ELSE kw.repeat_commands

\* the error __init__ raises, in the order of its checks: the bulb types of
\* the four groups, the port, repeat_commands, pause_between_commands
InitError(kw) ==
    IF \E g \in Groups : kw.groups[g] \notin BulbTypes THEN "InvalidBulbType"
    ELSE IF kw.port < 1 \/ kw.port > 65535 THEN "InvalidConfig"
    ELSE IF StoredRepeat(kw) < 1 THEN "InvalidConfig"
    ELSE IF kw.pause_between_commands < 0 THEN "InvalidConfig"
    ELSE "none"

\* LedController(gateway_ip, **kwargs) for client c
Construct(c) ==
    \E port \in PortArgs, repeat \in RepeatArgs, pause \in PauseArgs,
       types \in GroupKwargs :
        /\ pc = "new"
        /\ kwargs' = Kwargs(port, repeat, pause, types)
        /\ raised' = InitError(kwargs')
        /\ call' = CallRecord(c, "__init__", None, NoArg, << >>, FALSE)
        /\ IF raised' = "none"
           THEN /\ group' = [group EXCEPT ![c] = types]
                /\ has_white' = [has_white EXCEPT
                       ![c] = \E g \in Groups : types[g] = "white"]
                /\ has_rgbw' = [has_rgbw EXCEPT
                       ![c] = \E g \in Groups : types[g] = "rgbw"]
                /\ repeat_commands' = [repeat_commands EXCEPT ![c] = StoredRepeat(kwargs')]
                /\ pause_between_commands' = [pause_between_commands EXCEPT ![c] = pause]
                /\ last_command_at' = [last_command_at EXCEPT ![c] = 0]
                /\ pc' = "idle"
           ELSE UNCHANGED << group, has_white, has_rgbw, repeat_commands,
                             pause_between_commands, last_command_at, pc >>
        /\ UNCHANGED << pool_last_command_at, now, invoked, pending, sent, retval,
                        sent_at, prev_sent_at, nsent, env >>

\* before the constructor has run there is no client: its fields hold nothing
InitNew ==
    /\ kwargs = Kwargs(0, 0, 0, << >>)
    /\ group = [c \in Controllers |-> << >>]
    /\ has_white = [c \in Controllers |-> FALSE]
    /\ has_rgbw = [c \in Controllers |-> FALSE]
    /\ repeat_commands = [c \in Controllers |-> 0]
    /\ pause_between_commands = [c \in Controllers |-> 0]
    /\ last_command_at = [c \in Controllers |-> 0]
    /\ pool_last_command_at = 0
    /\ now = Epoch
    /\ call = NoCall
    /\ invoked = << >>
    /\ pending = << >>
    /\ sent = << >>
    /\ raised = "none"
    /\ retval = NoArg
    /\ sent_at = 0
    /\ prev_sent_at = 0
    /\ nsent = 0
    /\ pc = "new"
    /\ open_sockets = 0
    /\ th = [t \in Threads |-> IdleThread]
    /\ serialized = TRUE
    /\ pooled = FALSE
    /\ wake = 0

NextNew ==
    \/ Construct(0)
    \/ On(0)
    \/ SetGroupType(0)
    \/ BatchRun(0)

SpecNew == InitNew /\ [][NextNew]_vars

(***************************************************************************)
(* SpecBright: set_brightness over a range of integer and float arguments. *)
(***************************************************************************)
\* integer percents from PercentMargin below 0 to PercentMargin above 100
PercentArgs == { IntArg(p) : p \in (0 - PercentMargin) .. (100 + PercentMargin) }

\* floats from -PercentMargin/100 to 1 + PercentMargin/100 in steps of 0.01,
\* and -1.16, 1.5, 2.0, 50.0, 99.99, 100.0 and 150.0
FractionArgs ==
    { FloatArg(h) : h \in ((0 - PercentMargin) .. (100 + PercentMargin))
                            \cup {0 - 116, 150, 200, 5000, 9999, 10000, 15000} }

SetBrightnessAny(c) ==
    \E g \in {None, 1}, a \in PercentArgs \cup FractionArgs :
        Call(c, "set_brightness", g, a)

NextBright == SetBrightnessAny(0)

SpecBright == Init /\ [][NextBright]_vars

(***************************************************************************)
(* The same calls step by step, with the clock: a call hands its commands  *)
(* to _send_command one at a time, and each may have to sleep.             *)
(***************************************************************************)
TimedCommands ==
    { Command("on", 1, NoArg),
      Command("white", 2, NoArg),
      Command("set_brightness", None, IntArg(50)),
      Command("disco", 1, NoArg),
      Command("off", 5, NoArg) }

EndOfTime == Epoch + Horizon

\* what the call recorded in cr does from entry to exit
CallOutcome(cr) ==
    IF cr.op = "batch_run"
    THEN batch_run(cr.ctrl, cr.batch, cr.repeat_commands)
    ELSE BatchAcc(Dispatch(cr.ctrl, Command(cr.op, cr.group, cr.arg), cr.repeat_commands),
                  << Invocation(Command(cr.op, cr.group, cr.arg), cr.repeat_commands) >>)

\* entry into a public operation (pool = TRUE: through LedControllerPool.execute,
\* which first copies the pool's last_command_at into the controller)
\* (index: the controller_id execute was given, which stands for controller c)
EnterAt(index, c, op, g, arg, batch, pool) ==
    /\ pc = "idle"
    /\ call' = [CallRecord(c, op, g, arg, batch, pool) EXCEPT !.index = index]
    /\ pending' = CallOutcome(call').res.cmds
    /\ invoked' = << >>
    /\ sent' = << >>
    /\ raised' = "none"
    /\ retval' = NoArg
    /\ pc' = "running"
    /\ repeat_commands' = IF op = "batch_run"
                          THEN [repeat_commands EXCEPT ![c] = 1]
                          ELSE repeat_commands
    /\ last_command_at' = IF pool
                          THEN [last_command_at EXCEPT ![c] = pool_last_command_at]
                          ELSE last_command_at
    /\ UNCHANGED << config, env, pool_last_command_at, now, sent_at, prev_sent_at, nsent >>

Enter(c, op, g, arg, batch, pool) == EnterAt(c, c, op, g, arg, batch, pool)

BeginCall(c) == \E cmd \in TimedCommands : Enter(c, cmd.op, cmd.group, cmd.arg, << >>, FALSE)

BeginBatch(c) == \E commands \in Batches : Enter(c, "batch_run", None, NoArg, commands, FALSE)

\* WakeAt without the sleep: the command goes out at once
WakeAtNoSleep(c) == now

\* the clock value at which _send_command goes on to send: at once when the
\* pause has passed, else after sleeping for the shortfall
WakeAt(c) ==
    LET time_since_last_command == now - last_command_at[c]
    IN  IF time_since_last_command < pause_between_commands[c]
        THEN now + (pause_between_commands[c] - time_since_last_command)
        ELSE now

\* lines 174-177 of _send_command for the next command of the running call:
\* read the clock, compare with last_command_at and, when the pause is not
\* over, call time.sleep for the shortfall.  The call is the only one on its
\* client (and pool): nothing else runs while it sleeps.
PauseCheck ==
    /\ pc = "running"
    /\ pending # << >>
    /\ wake' = WakeAt(call.ctrl)
    /\ pc' = "sleeping"
    /\ UNCHANGED << config, open_sockets, th, serialized, pooled, repeat_commands,
                    pacing, call, invoked, pending, sent, raised, retval >>

\* lines 178-190 of _send_command: the sleep, if any, is over; store the
\* time and send the command.  d is how much later than it was to wake the
\* clock stands when line 178 reads it
SendCommand ==
    \E d \in 0 .. MaxJitter :
        LET c == call.ctrl
            t == Max(now, wake) + d
        IN  /\ pc = "sleeping"
            /\ t <= EndOfTime
            /\ now' = t
            /\ last_command_at' = [last_command_at EXCEPT ![c] = t]
            /\ sent' = Append(sent, Encode(Head(pending)))
            /\ pending' = Tail(pending)
            /\ prev_sent_at' = sent_at
            /\ sent_at' = t
            /\ nsent' = Min(2, nsent + 1)
            /\ wake' = 0
            /\ pc' = "running"
            /\ UNCHANGED << config, open_sockets, th, serialized, pooled,
                            repeat_commands, pool_last_command_at, call,
                            invoked, raised, retval >>

\* the call returns or raises; batch_run restores repeat_commands and execute
\* copies last_command_at back to the pool only when nothing was raised
Return ==
    /\ pc = "running"
    /\ pending = << >>
    /\ \E out \in { CallOutcome(call) } :
        /\ pc' = "idle"
        /\ raised' = out.res.raised
        /\ invoked' = out.inv
        /\ retval' = IF out.res.raised = "none" /\ call.op # "batch_run"
                     THEN ReturnValue(Command(call.op, call.group, call.arg))
                     ELSE NoArg
        /\ repeat_commands' =
               IF call.op = "batch_run"
               THEN [repeat_commands EXCEPT
                        ![call.ctrl] = BatchRepeatAfter(out.res, call.repeat_commands)]
               ELSE repeat_commands
        /\ pool_last_command_at' =
               IF call.pool /\ out.res.raised = "none"
               THEN last_command_at[call.ctrl]
               ELSE pool_last_command_at
        /\ UNCHANGED << config, env, last_command_at, now, call, pending, sent,
                        sent_at, prev_sent_at, nsent >>

\* time passes
Tick ==
    /\ now < EndOfTime
    /\ now' = now + 1
    /\ UNCHANGED << config, env, repeat_commands, last_command_at, pool_last_command_at,
                    call, invoked, pending, sent, raised, retval, sent_at,
                    prev_sent_at, nsent, pc >>

Combined == { [g \in Groups |-> IF g % 2 = 1 THEN "rgbw" ELSE "white"] }

(***************************************************************************)
(* SpecPace: one LedController with a pause, used from one thread.         *)
(***************************************************************************)
InitPace == InitWith(Combined, 1 .. MaxRepeat, 1 .. MaxPause)

NextPace ==
    \/ BeginCall(0)
    \/ BeginBatch(0)
    \/ PauseCheck
    \/ SendCommand
    \/ Return
    \/ Tick

SpecPace == InitPace /\ [][NextPace]_vars

(***************************************************************************)
(* SpecPool: a LedControllerPool, every call made through execute.         *)
(***************************************************************************)
PoolCommands == { Command("on", 1, NoArg), Command("off", 5, NoArg) }

PoolBatches ==
    { << Command("on", 1, NoArg), Command("on", 2, NoArg) >>,
      << Command("on", 1, NoArg), Command("off", 5, NoArg) >> }

\* execute(c, op, ...)
Execute(c) == \E cmd \in PoolCommands : Enter(c, cmd.op, cmd.group, cmd.arg, << >>, TRUE)

\* execute(c, "batch_run", ...)
ExecuteBatch(c) == \E commands \in PoolBatches : Enter(c, "batch_run", None, NoArg, commands, TRUE)

NextPool ==
    \/ \E c \in Controllers : Execute(c)
    \/ \E c \in Controllers : ExecuteBatch(c)
    \/ PauseCheck
    \/ SendCommand
    \/ Return
    \/ Tick

SpecPool == InitPace /\ [][NextPool]_vars

(***************************************************************************)
(* SpecIndex: execute with any controller_id.  self.controllers is a       *)
(* Python list, so controller_id -1 .. -N counts from its end.             *)
(***************************************************************************)
IndexArgs == (0 - NumControllers - 1) .. (NumControllers + 1)

\* self.controllers[controller_id]: the controller's position, or None when
\* the list raises IndexError
ControllerAt(i) ==
    IF i \in Controllers THEN i
    ELSE IF i < 0 /\ i + NumControllers \in Controllers THEN i + NumControllers
    ELSE None

\* execute(i, op, ...)
ExecuteAt ==
    \E i \in IndexArgs, cmd \in PoolCommands :
        IF ControllerAt(i) = None
        THEN /\ pc = "idle"
             /\ call' = [NoCall EXCEPT !.ctrl = None, !.op = cmd.op, !.group = cmd.group,
                                       !.arg = cmd.arg, !.pool = TRUE, !.index = i]
             /\ raised' = "IndexError"
             /\ invoked' = << >>
             /\ pending' = << >>
             /\ sent' = << >>
             /\ retval' = NoArg
             /\ UNCHANGED << config, env, repeat_commands, pacing, pc >>
        ELSE EnterAt(i, ControllerAt(i), cmd.op, cmd.group, cmd.arg, << >>, TRUE)

NextIndex ==
    \/ ExecuteAt
    \/ PauseCheck
    \/ SendCommand
    \/ Return
    \/ Tick

SpecIndex == InitPace /\ [][NextIndex]_vars

(***************************************************************************)
(* SpecSock: _send_command line by line around its socket.  sendto can     *)
(* raise (an unresolvable gateway_ip, a broadcast address, an unreachable  *)
(* network); nothing in the call catches it.                               *)
(***************************************************************************)
\* lines 178-187 of _send_command: the sleep, if any, is over; the
\* timestamp, the bytes of the command, sock = socket.socket(...)
OpenSocket ==
    \E d \in 0 .. MaxJitter :
        LET c == call.ctrl
            t == Max(now, wake) + d
        IN  /\ pc = "sleeping"
            /\ t <= EndOfTime
            /\ now' = t
            /\ last_command_at' = [last_command_at EXCEPT ![c] = t]
            /\ open_sockets' = open_sockets + 1
            /\ wake' = 0
            /\ pc' = "opened"
            /\ UNCHANGED << config, th, serialized, pooled, repeat_commands,
                            pool_last_command_at, call, invoked, pending, sent,
                            raised, retval, sent_at, prev_sent_at, nsent >>

\* sock.sendto(...) returns: the frame is on the wire
Sendto ==
    /\ pc = "opened"
    /\ sent' = Append(sent, Encode(Head(pending)))
    /\ prev_sent_at' = sent_at
    /\ sent_at' = last_command_at[call.ctrl]
    /\ nsent' = Min(2, nsent + 1)
    /\ pc' = "sendto_done"
    /\ UNCHANGED << config, env, repeat_commands, last_command_at,
                    pool_last_command_at, now, call, invoked, pending, raised, retval >>

\* sock.sendto(...) raises: the error leaves _send_command at that line and,
\* uncaught, the operation (one other than batch_run) that was called
SendtoRaises ==
    /\ pc = "opened"
    /\ call.op # "batch_run"
    /\ raised' = "OSError"
    /\ invoked' = CallOutcome(call).inv
    /\ pending' = << >>
    /\ retval' = NoArg
    /\ pc' = "idle"
    /\ UNCHANGED << config, env, repeat_commands, pacing, call, sent >>

\* sock.close(), and _send_command returns
CloseSocket ==
    /\ pc = "sendto_done"
    /\ open_sockets' = open_sockets - 1
    /\ pending' = Tail(pending)
    /\ pc' = "running"
    /\ UNCHANGED << config, th, serialized, pooled, wake, repeat_commands, pacing, call,
                    invoked, sent, raised, retval >>

\* the interpreter finalizes a socket object nothing refers to any more, which
\* closes it; when that happens is up to the garbage collector
Finalize ==
    /\ open_sockets > (IF pc \in {"opened", "sendto_done"} THEN 1 ELSE 0)
    /\ open_sockets' = open_sockets - 1
    /\ UNCHANGED << config, th, serialized, pooled, wake, repeat_commands, pacing, call,
                    invoked, pending, sent, raised, retval, pc >>

NextSock ==
    \/ BeginCall(0)
    \/ PauseCheck
    \/ OpenSocket
    \/ Sendto
    \/ SendtoRaises
    \/ CloseSocket
    \/ Return
    \/ Finalize

SpecSock == InitPace /\ [][NextSock]_vars

(***************************************************************************)
(* SpecRace: two threads of one caller on the same client, or on the same  *)
(* pool.  Nothing in the code locks: another thread can run between any    *)
(* two of the reads and stores of lines 174-178 and between the socket     *)
(* calls of lines 187-189.  The caller either lets one thread at a time    *)
(* make a call (serialized) or does not.  Each thread makes one call: an   *)
(* operation that returns, or a batch_run whose second command raises      *)
(* after the first has been sent.                                          *)
(***************************************************************************)
RaceCommands == { Command("on", 1, NoArg) }

\* batch_run((on, 1), (off, 5)): on(1) is sent, off(5) raises
RaceBatches == { << Command("on", 1, NoArg), Command("off", 5, NoArg) >> }
\* the controllers the threads call: the first and the last gateway of the pool
RaceControllers == {0, NumControllers - 1}

\* the controllers thread t calls: the first thread calls the first gateway,
\* the second thread the same gateway or the other one (the controllers of a
\* pool are built alike, so which of the two gets the name 0 is no matter)
RaceTargets(t) == IF t = 1 THEN {0} ELSE RaceControllers

\* execute leaving the pool's last_command_at as it was
PoolStampStale(c) == pool_last_command_at

\* self.last_command_at = controller_instance.last_command_at, on the way out
\* of execute
PoolStamp(c) == last_command_at[c]

\* thread t calls an operation of controller c, through execute when pooled
\* (which first copies the pool's last_command_at into the controller)
ThreadCall(t, c) ==
    \E cmd \in RaceCommands :
        /\ th[t].pc = "idle"
        /\ serialized => \A u \in Threads : th[u].pc \in {"idle", "done"}
        /\ pooled \/ c = 0
        /\ th' = [th EXCEPT ![t] =
                     [IdleThread EXCEPT !.pc = "check", !.ctrl = c,
                          !.pending = Dispatch(c, cmd, repeat_commands[c]).cmds]]
        /\ last_command_at' = IF pooled
                              THEN [last_command_at EXCEPT ![c] = pool_last_command_at]
                              ELSE last_command_at
        /\ sent' = << >>
        /\ UNCHANGED << config, repeat_commands, open_sockets, serialized, pooled, wake,
                        pool_last_command_at, now, sent_at, prev_sent_at, nsent,
                        call, invoked, pending, raised, retval, pc >>

\* thread t calls batch_run of controller c, through execute when pooled:
\* lines 459-460 set repeat_commands to 1, then the commands run until one
\* raises
ThreadBatch(t, c) ==
    \E commands \in RaceBatches :
        LET res == batch_run(c, commands, repeat_commands[c]).res
        IN  /\ th[t].pc = "idle"
            /\ serialized => \A u \in Threads : th[u].pc \in {"idle", "done"}
            /\ pooled \/ c = 0
            /\ th' = [th EXCEPT ![t].pc = "check", ![t].ctrl = c,
                                ![t].pending = res.cmds, ![t].raises = res.raised]
            /\ repeat_commands' = [repeat_commands EXCEPT ![c] = 1]
            /\ last_command_at' = IF pooled
                                  THEN [last_command_at EXCEPT ![c] = pool_last_command_at]
                                  ELSE last_command_at
            /\ sent' = << >>
            /\ UNCHANGED << config, open_sockets, serialized, pooled, wake,
                            pool_last_command_at, now, sent_at, prev_sent_at, nsent,
                            call, invoked, pending, raised, retval, pc >>

\* line 174 in thread t, time.time(): the clock is read
ReadClock(t) ==
    /\ th[t].pc = "check"
    /\ th[t].pending # << >>
    /\ th' = [th EXCEPT ![t].pc = "read", ![t].clock = now]
    /\ UNCHANGED << config, repeat_commands, open_sockets, serialized, pooled, wake,
                    pacing, call, invoked, pending, sent, raised, retval, pc >>

\* lines 174-177 in thread t: self.last_command_at is read and taken from the
\* clock value read before; when the difference is below the pause,
\* time.sleep is called for what is missing
Observe(t) ==
    LET time_since_last_command == th[t].clock - last_command_at[th[t].ctrl]
        pause == pause_between_commands[th[t].ctrl]
    IN  /\ th[t].pc = "read"
        /\ th' = [th EXCEPT
                     ![t].pc = "sleep",
                     ![t].clock = 0,
                     ![t].slept = time_since_last_command < pause,
                     ![t].wake = IF time_since_last_command < pause
                                 THEN now + (pause - time_since_last_command)
                                 ELSE now]
        /\ UNCHANGED << config, repeat_commands, open_sockets, serialized, pooled, wake,
                        pacing, call, invoked, pending, sent, raised, retval, pc >>

\* line 178 in thread t, time.time(): the sleep, if any, is over (the clock
\* stands at the time the thread was to wake, or later when another thread
\* has moved it further, plus d) and the clock is read
ReadStamp(t) ==
    \E d \in 0 .. MaxJitter :
        LET at == Max(now, th[t].wake) + d
        IN  /\ th[t].pc = "sleep"
            /\ at <= EndOfTime
            /\ now' = at
            /\ th' = [th EXCEPT ![t].pc = "stamp", ![t].clock = at, ![t].wake = 0]
            /\ UNCHANGED << config, repeat_commands, open_sockets, serialized, pooled,
                            wake, last_command_at, pool_last_command_at, sent_at,
                            prev_sent_at, nsent, call, invoked, pending, sent, raised,
                            retval, pc >>

\* line 178 in thread t: the value read is stored in last_command_at
StoreStamp(t) ==
    /\ th[t].pc = "stamp"
    /\ last_command_at' = [last_command_at EXCEPT ![th[t].ctrl] = th[t].clock]
    /\ th' = [th EXCEPT ![t].pc = "send"]
    /\ UNCHANGED << config, repeat_commands, open_sockets, serialized, pooled, wake,
                    pool_last_command_at, now, sent_at, prev_sent_at, nsent,
                    call, invoked, pending, sent, raised, retval, pc >>

\* lines 179-187 in thread t: the frame is padded and socket.socket() gives
\* the thread a socket of its own
ThreadOpen(t) ==
    /\ th[t].pc = "send"
    /\ open_sockets' = open_sockets + 1
    /\ th' = [th EXCEPT ![t].pc = "opened"]
    /\ UNCHANGED << config, repeat_commands, serialized, pooled, wake, pacing,
                    call, invoked, pending, sent, raised, retval, pc >>

\* line 188 in thread t, sock.sendto: the frame goes out; sent_at is the time
\* the thread stored for it
ThreadSend(t) ==
    /\ th[t].pc = "opened"
    /\ sent' = Append(sent, Encode(Head(th[t].pending)))
    /\ prev_sent_at' = sent_at
    /\ sent_at' = th[t].clock
    /\ nsent' = Min(2, nsent + 1)
    /\ th' = [th EXCEPT ![t].pc = "sendto_done", ![t].pending = Tail(@),
                        ![t].clock = 0]
    /\ UNCHANGED << config, repeat_commands, open_sockets, serialized, pooled, wake,
                    last_command_at, pool_last_command_at, now, call, invoked,
                    pending, raised, retval, pc >>

\* lines 189-190 in thread t, sock.close(): the thread's socket is closed and
\* _send_command returns
ThreadClose(t) ==
    /\ th[t].pc = "sendto_done"
    /\ open_sockets' = open_sockets - 1
    /\ th' = [th EXCEPT ![t].pc = "check"]
    /\ UNCHANGED << config, repeat_commands, serialized, pooled, wake, pacing,
                    call, invoked, pending, sent, raised, retval, pc >>

\* the call of thread t returns, and execute goes on to line 51, which
\* copies the controller's last_command_at to the pool; each thread makes one
\* call
ThreadReturn(t) ==
    /\ th[t].pc = "check"
    /\ th[t].pending = << >>
    /\ th[t].raises = "none"
    /\ pool_last_command_at' = IF pooled THEN PoolStamp(th[t].ctrl)
                               ELSE pool_last_command_at
    /\ th' = [th EXCEPT ![t].pc = "done"]
    /\ UNCHANGED << config, repeat_commands, open_sockets, serialized, pooled, wake,
                    last_command_at, now, sent_at, prev_sent_at, nsent,
                    call, invoked, pending, sent, raised, retval, pc >>

\* the call of thread t raises: the error leaves batch_run before line 466,
\* so repeat_commands stays 1, and leaves execute before line 51, so the
\* pool's last_command_at stays what it was
ThreadRaise(t) ==
    /\ th[t].pc = "check"
    /\ th[t].pending = << >>
    /\ th[t].raises # "none"
    /\ raised' = th[t].raises
    /\ th' = [th EXCEPT ![t].pc = "done"]
    /\ UNCHANGED << config, repeat_commands, open_sockets, serialized, pooled, wake,
                    pacing, call, invoked, pending, sent, retval, pc >>

InitRace ==
    /\ InitClients(Combined, 1 .. MaxRepeat, 1 .. MaxPause)
    /\ serialized \in BOOLEAN
    /\ pooled \in BOOLEAN

NextRace ==
    \/ \E t \in Threads : \E c \in RaceTargets(t) : ThreadCall(t, c)
    \/ \E t \in Threads : \E c \in RaceTargets(t) : ThreadBatch(t, c)
    \/ \E t \in Threads : ReadClock(t)
    \/ \E t \in Threads : Observe(t)
    \/ \E t \in Threads : ReadStamp(t)
    \/ \E t \in Threads : StoreStamp(t)
    \/ \E t \in Threads : ThreadOpen(t)
    \/ \E t \in Threads : ThreadSend(t)
    \/ \E t \in Threads : ThreadClose(t)
    \/ \E t \in Threads : ThreadReturn(t)
    \/ \E t \in Threads : ThreadRaise(t)

SpecRace == InitRace /\ [][NextRace]_vars

(***************************************************************************)
(* Properties.                                                             *)
(***************************************************************************)
\* how often frame f was transmitted by the call
Count(f) == Cardinality({ i \in 1 .. Len(sent) : sent[i] = f })

\* the call has left its operation
Finished == pc = "idle" /\ call.op # "none"

\* C1: on one LedController used from one thread, any two frames transmitted
\* one after the other (within a call or across calls) are at least
\* pause_between_commands apart, and every transmission stores its time in
\* last_command_at.
C1_PacedSingle ==
    /\ nsent >= 2 => sent_at - prev_sent_at >= pause_between_commands[0]
    /\ nsent >= 1 => last_command_at[0] = sent_at

\* a call that auto-ons and retries has sent two frames exactly a pause apart:
\* the second one slept for the shortfall
C1_Witness ==
    /\ call.op = "white"
    /\ Len(sent) >= 2
    /\ nsent = 2
    /\ pause_between_commands[0] = MaxPause
    /\ sent_at - prev_sent_at = pause_between_commands[0]

\* C2: any two frames transmitted one after the other through
\* LedControllerPool.execute, to whichever gateways, are at least
\* pause_between_commands apart.
C2_PacedPool ==
    nsent >= 2 => sent_at - prev_sent_at >= pause_between_commands[0]

(***************************************************************************)
(* What the claims speak of, read off the state after a call on client 0.  *)
(***************************************************************************)
\* some group 1..4 is configured with bulb type t
TypePresent(t) == \E g \in Groups : group[0][g] = t

\* the call addresses all groups: its group is None or 0
AllTarget == call.group \in {None, 0}

\* the call's target includes bulbs of type t
Addressed(t) ==
    IF AllTarget THEN TypePresent(t)
    ELSE call.group \in Groups /\ group[0][call.group] = t

ValidTarget == AllTarget \/ call.group \in Groups

\* the on (off) frames of the target: one per bulb type addressed
OnFrames ==
    IF AllTarget
    THEN (IF TypePresent("white") THEN { Encode(<<53>>) } ELSE { })
         \cup (IF TypePresent("rgbw") THEN { Encode(<<66>>) } ELSE { })
    ELSE { Encode((IF group[0][call.group] = "white"
                   THEN WHITE_GROUP_X_ON ELSE RGBW_GROUP_X_ON)[call.group]) }

OffFrames ==
    IF AllTarget
    THEN (IF TypePresent("white") THEN { Encode(<<57>>) } ELSE { })
         \cup (IF TypePresent("rgbw") THEN { Encode(<<65>>) } ELSE { })
    ELSE { Encode((IF group[0][call.group] = "white"
                   THEN WHITE_GROUP_X_OFF ELSE RGBW_GROUP_X_OFF)[call.group]) }

\* the frames of an RGBW target
RgbwOffFrame ==
    IF AllTarget THEN Encode(<<65>>) ELSE Encode(RGBW_GROUP_X_OFF[call.group])

RgbwToWhiteFrame ==
    IF AllTarget THEN Encode(<<194>>) ELSE Encode(RGBW_GROUP_X_TO_WHITE[call.group])

\* the frame set_color is to deliver to an RGBW target
ColorFrame ==
    LET a == call.arg
    IN  IF a.kind = "name" /\ a.name = "white" THEN RgbwToWhiteFrame
        ELSE IF a.kind = "rgb" /\ a.rgb = <<0, 0, 0>> THEN RgbwOffFrame
        ELSE IF a.kind = "rgb" /\ a.rgb = <<255, 255, 255>> THEN RgbwToWhiteFrame
        ELSE IF a.kind = "rgb" THEN << 64, rgb_to_hue(a.rgb[1], a.rgb[2], a.rgb[3]), 85 >>
        ELSE IF a.kind = "int" THEN << 64, a.val, 85 >>
        ELSE Encode(RGBW_COMMANDS["color_to_" \o a.name])

\* C3: one call to on, off, white (RGBW target) or set_color (RGBW target) on a
\* valid target transmits its target frame exactly repeat_commands times.
C3_RepeatedNTimes ==
    (Finished /\ raised = "none" /\ ValidTarget) =>
        /\ call.op = "on" => \A f \in OnFrames : Count(f) = call.repeat_commands
        /\ call.op = "off" => \A f \in OffFrames : Count(f) = call.repeat_commands
        /\ (call.op = "white" /\ Addressed("rgbw")) =>
               Count(RgbwToWhiteFrame) = call.repeat_commands
        /\ (call.op = "set_color" /\ Addressed("rgbw")) =>
               Count(ColorFrame) = call.repeat_commands

\* set_color(156) on an RGBW target with the largest repeat_commands
C3_Witness ==
    /\ Finished
    /\ call.op = "set_color"
    /\ call.arg = IntArg(156)
    /\ Addressed("rgbw")
    /\ call.repeat_commands = MaxRepeat
    /\ Count(<<64, 156, 85>>) = MaxRepeat

StatefulOps == {"disco", "disco_faster", "disco_slower", "nightmode"}

\* the mode frame of the call for bulb type t, where t has one
HasModeFrame(t) == call.op = "nightmode" \/ t = "rgbw"

ModeFrame(t) ==
    IF call.op = "nightmode"
    THEN IF AllTarget
         THEN Encode(IF t = "white" THEN <<185>> ELSE <<193>>)
         ELSE Encode((IF t = "white" THEN WHITE_GROUP_X_NIGHTMODE
                      ELSE RGBW_GROUP_X_NIGHTMODE)[call.group])
    ELSE Encode(RGBW_COMMANDS[call.op])

\* C4: whatever repeat_commands is, one call to disco, disco_faster,
\* disco_slower or nightmode transmits its mode frame exactly once for each
\* addressed bulb type that has an entry for it, and not at all otherwise.
C4_StatefulOnce ==
    (Finished /\ raised = "none" /\ ValidTarget /\ call.op \in StatefulOps) =>
        \A t \in { x \in BulbTypes : HasModeFrame(x) } :
            Count(ModeFrame(t)) = IF Addressed(t) THEN 1 ELSE 0

\* disco on an RGBW group of a client that repeats
C4_Witness ==
    /\ Finished
    /\ call.op = "disco"
    /\ call.group = 1
    /\ Addressed("rgbw")
    /\ call.repeat_commands = MaxRepeat
    /\ Count(<<77, 0, 85>>) = 1
    /\ Len(sent) > 1

AutoOnOps == {"white", "set_color", "disco", "disco_faster", "disco_slower",
              "brightness_up", "brightness_down", "cooler", "warmer"}

\* the number of passes of the retry loop of the call
Iterations == IF call.op \in StatefulOps THEN 1 ELSE call.repeat_commands

\* C5: an operation that auto-ons transmits the target's on frame exactly once
\* per retry iteration, so exactly as many on frames as it runs iterations.
C5_AutoOnOncePerIteration ==
    (Finished /\ raised = "none" /\ ValidTarget /\ call.op \in AutoOnOps
       /\ call.arg # RgbArg(0, 0, 0)) =>
        \A f \in OnFrames : Count(f) = Iterations

\* C6: one call to set_brightness transmits the brightness frame 0x4e,value
\* exactly repeat_commands times.
C6_BrightnessRepeated ==
    (Finished /\ raised = "none" /\ call.op = "set_brightness") =>
        Count(<< 78, get_brightness_level(BrightnessPercent(call.arg))[2], 85 >>)
            = call.repeat_commands

\* c1..cm, c1..cm, ...: the whole list n times, each with repeat_commands 1
RoundRobin(commands, n) ==
    [k \in 1 .. (n * Len(commands)) |->
        Invocation(commands[((k - 1) % Len(commands)) + 1], 1)]

IsPrefix(p, q) == Len(p) <= Len(q) /\ \A i \in 1 .. Len(p) : p[i] = q[i]

\* C7: batch_run invokes c1..cm, c1..cm, ... (the whole list repeat_commands
\* times), each invocation with repeat_commands = 1; a run cut short by an
\* error is a prefix of that order.
C7_BatchOrder ==
    (Finished /\ call.op = "batch_run") =>
        /\ IsPrefix(invoked, RoundRobin(call.batch, call.repeat_commands))
        /\ raised = "none" => invoked = RoundRobin(call.batch, call.repeat_commands)

\* two different commands, at least two rounds, all of them run
C7_Witness ==
    /\ Finished
    /\ call.op = "batch_run"
    /\ raised = "none"
    /\ call.repeat_commands = MaxRepeat
    /\ Len(call.batch) = MaxBatch
    /\ call.batch[1] # call.batch[2]
    /\ Len(invoked) = MaxRepeat * MaxBatch

\* C8: after batch_run returns or raises, repeat_commands is what it was when
\* batch_run was called.
C8_BatchRestoresRepeat ==
    (Finished /\ call.op = "batch_run") => repeat_commands[0] = call.repeat_commands

PublicOps == {"on", "off", "white", "set_color", "set_brightness", "disco",
              "disco_faster", "disco_slower", "nightmode", "brightness_up",
              "brightness_down", "warmer", "cooler"}

Palette == {"violet", "royal_blue", "baby_blue", "aqua", "royal_mint",
            "seafoam_green", "green", "lime_green", "yellow", "yellow_orange",
            "orange", "red", "pink", "fusia", "lilac", "lavendar"}

\* the color argument of the call is one set_color rejects
InvalidColorArg ==
    /\ call.op = "set_color"
    /\ \/ call.arg.kind = "int" /\ (call.arg.val < 0 \/ call.arg.val > 255)
       \/ call.arg.kind = "name" /\ call.arg.name \notin Palette \cup {"white"}

\* C9 as stated: every public operation called with a group that is neither
\* None/0 nor in 1..4 raises the invalid-group error and transmits nothing;
\* None and 0 mean all groups and do not raise it.
C9_InvalidGroupRaises ==
    (Finished /\ call.op \in PublicOps) =>
        /\ ~ValidTarget => (raised = "InvalidGroup" /\ sent = << >>)
        /\ AllTarget => raised # "InvalidGroup"

\* C9, amended: the call raises and transmits nothing; the error is the
\* invalid-group error unless set_color was also given an invalid color, which
\* it rejects first.
C9_InvalidGroupRaisesAmended ==
    (Finished /\ call.op \in PublicOps) =>
        /\ ~ValidTarget =>
               /\ sent = << >>
               /\ raised = IF InvalidColorArg THEN "InvalidColor" ELSE "InvalidGroup"
        /\ AllTarget => raised # "InvalidGroup"

\* nightmode(-1) on a client that repeats
C9_Witness ==
    /\ Finished
    /\ call.op = "nightmode"
    /\ call.group = 0 - 1
    /\ call.repeat_commands = MaxRepeat
    /\ raised = "InvalidGroup"
    /\ sent = << >>

PerGroupOps == {"on", "off", "nightmode", "white"}

\* the per-group table of operation op for bulb type t
PerGroupTable(op, t) ==
    CASE op = "on"        -> IF t = "white" THEN WHITE_GROUP_X_ON ELSE RGBW_GROUP_X_ON
      [] op = "off"       -> IF t = "white" THEN WHITE_GROUP_X_OFF ELSE RGBW_GROUP_X_OFF
      [] op = "nightmode" -> IF t = "white" THEN WHITE_GROUP_X_NIGHTMODE
                             ELSE RGBW_GROUP_X_NIGHTMODE
      [] op = "white"     -> IF t = "white" THEN WHITE_GROUP_X_FULL
                             ELSE RGBW_GROUP_X_TO_WHITE

PerGroupCall == Finished /\ raised = "none" /\ call.op \in PerGroupOps /\ call.group \in Groups

\* C10: for a group g in 1..4, on(g), off(g), nightmode(g) and white(g)
\* transmit the entry g-1 of the per-group table of the bulb type configured
\* for g (for white(g) on a white group: WHITE_GROUP_X_FULL).
C10_PerGroupTable ==
    PerGroupCall =>
        Count(Encode(PerGroupTable(call.op, group[0][call.group])[call.group])) >= 1

(***************************************************************************)
(* C11 .. C20.                                                             *)
(***************************************************************************)
\* the first bytes of the frames of each bulb type's tables
WhiteOpcodes ==
    { WHITE_COMMANDS[k][1] : k \in DOMAIN WHITE_COMMANDS }
        \cup { t[g][1] : t \in { WHITE_GROUP_X_ON, WHITE_GROUP_X_OFF,
                                 WHITE_GROUP_X_FULL, WHITE_GROUP_X_NIGHTMODE },
                         g \in Groups }

RgbwOpcodes ==
    { RGBW_COMMANDS[k][1] : k \in DOMAIN RGBW_COMMANDS }
        \cup { t[g][1] : t \in { RGBW_GROUP_X_ON, RGBW_GROUP_X_OFF,
                                 RGBW_GROUP_X_TO_WHITE, RGBW_GROUP_X_NIGHTMODE },
                         g \in Groups }

OpcodesOf(t) == IF t = "white" THEN WhiteOpcodes ELSE RgbwOpcodes

\* the operations routed through the command tables
TableOps == PublicOps \ {"set_brightness"}

\* the key under which the call's operation stands in the all-groups tables
AllKey ==
    LET a == call.arg
    IN  CASE call.op = "on"        -> "all_on"
          [] call.op = "off"       -> "all_off"
          [] call.op = "white"     -> "all_white"
          [] call.op = "nightmode" -> "all_nightmode"
          [] call.op = "set_color" ->
                 IF a.kind = "name"
                 THEN (IF a.name = "white" THEN "all_white" ELSE "color_to_" \o a.name)
                 ELSE IF a.kind = "rgb" /\ a.rgb = <<0, 0, 0>> THEN "all_off"
                 ELSE IF a.kind = "rgb" /\ a.rgb = <<255, 255, 255>> THEN "all_white"
                 ELSE "color_by_int"
          [] OTHER                 -> call.op

\* the frame of bulb type t for the call's operation, where t's table has one
AllEntry(t) ==
    IF t = "white"
    THEN (IF AllKey \in DOMAIN WHITE_COMMANDS
          THEN { Encode(WHITE_COMMANDS[AllKey]) } ELSE { })
    ELSE IF AllKey = "color_by_int" THEN { ColorFrame }
    ELSE IF AllKey \in DOMAIN RGBW_COMMANDS
    THEN { Encode(RGBW_COMMANDS[AllKey]) } ELSE { }

\* C11: an operation on all groups (None or 0) transmits bulb type t's frame
\* for the operation exactly when some group 1..4 is configured with t and t's
\* table has an entry for it, and transmits no frame at all of a bulb type
\* that none of the groups 1..4 is configured with.
C11_AllGroupsByType ==
    (Finished /\ raised = "none" /\ AllTarget /\ call.op \in TableOps) =>
        \A t \in BulbTypes :
            /\ \A f \in AllEntry(t) : (Count(f) > 0) <=> TypePresent(t)
            /\ ~TypePresent(t) =>
                   \A i \in 1 .. Len(sent) : sent[i][1] \notin OpcodesOf(t)

\* the datagram the claim gives for a command of 1, 2 or 3 bytes
Padded(cmd) ==
    CASE Len(cmd) = 1 -> << cmd[1], 0, 85 >>
      [] Len(cmd) = 2 -> << cmd[1], cmd[2], 85 >>
      [] Len(cmd) = 3 -> cmd
      [] OTHER        -> << >>

\* commands of three bytes, which no public operation produces
ThreeByteCommands == { <<64, 176, 85>>, <<66, 0, 85>>, <<78, 27, 0>>, <<1, 2, 3>> }

\* the commands the call handed to _send_command, in order
HandedOver == Dispatch(0, Command(call.op, call.group, call.arg), call.repeat_commands).cmds

\* C12: every datagram a public operation transmits has exactly 3 bytes: a
\* 1-byte command b goes out as b,0x00,0x55 and a 2-byte command b1,b2 as
\* b1,b2,0x55; a command of 3 bytes is passed through unchanged.
C12_ThreeByteFrames ==
    /\ \A i \in 1 .. Len(sent) : Len(sent[i]) = 3
    /\ (Finished /\ call.op \in PublicOps) =>
           /\ Len(sent) = Len(HandedOver)
           /\ \A i \in 1 .. Len(sent) : sent[i] = Padded(HandedOver[i])
    /\ \A cmd \in ThreeByteCommands : Encode(cmd) = cmd

\* set_color("red", 1) on an RGBW group: a 1-byte and a 2-byte command
C12_Witness ==
    /\ Finished
    /\ call.op = "set_color"
    /\ call.arg = NameArg("red")
    /\ call.group = 1
    /\ \E i, j \in 1 .. Len(sent) :
           /\ Len(HandedOver[i]) = 1 /\ sent[i] = <<69, 0, 85>>
           /\ Len(HandedOver[j]) = 2 /\ sent[j] = <<64, 176, 85>>

\* percent clamped to 0..100
Clamped(percent) == IF percent < 0 THEN 0 ELSE IF percent > 100 THEN 100 ELSE percent

\* v = floor(2 + percent * 25 / 100)
IsDeviceValue(v, percent) ==
    /\ 100 * (v - 2) <= percent * 25
    /\ percent * 25 < 100 * (v - 1)

\* the brightness frame of the call: the last frame it transmitted
BrightnessFrame == sent[Len(sent)]

\* C13: for an integer percent, set_brightness transmits the device value
\* floor(2 + clamped * 25 / 100), which lies in 2..27, where clamped is the
\* percent clamped to 0..100 (so a percent below 0 gives the value of 0 and
\* one above 100 the value of 100), and returns the clamped percent.
C13_BrightnessLevel ==
    (Finished /\ call.op = "set_brightness" /\ call.arg.kind = "int"
       /\ raised = "none") =>
        /\ retval = IntArg(Clamped(call.arg.val))
        /\ Len(sent) > 0
        /\ BrightnessFrame[1] = 78
        /\ BrightnessFrame[3] = 85
        /\ BrightnessFrame[2] \in 2 .. 27
        /\ IsDeviceValue(BrightnessFrame[2], Clamped(call.arg.val))
        /\ call.arg.val < 0 => BrightnessFrame[2] = 2
        /\ call.arg.val > 100 => BrightnessFrame[2] = 27

\* set_brightness with the largest percent above 100
C13_Witness ==
    /\ Finished
    /\ call.op = "set_brightness"
    /\ call.arg = IntArg(100 + PercentMargin)
    /\ raised = "none"
    /\ retval = IntArg(100)
    /\ BrightnessFrame = <<78, 27, 85>>

\* the percent the claim gives for the float h/100: the fraction h/100 of 100
\* percent up to 1.0, the whole part of the float above 1.0
FractionPercent(h) == IF h > 100 THEN h \div 100 ELSE h

\* C14: set_brightness with a float f takes f <= 1.0 for the fraction f * 100
\* percent and f > 1.0 for the integer percent trunc(f): 0.1 gives 10, 1.0
\* gives 100 and 50.0 gives 50.
C14_FloatBrightness ==
    (Finished /\ call.op = "set_brightness" /\ call.arg.kind = "float"
       /\ raised = "none") =>
        retval = IntArg(Clamped(FractionPercent(call.arg.val)))

\* the call is set_brightness(50.0) and has returned
FiftyPointZero ==
    /\ Finished
    /\ call.op = "set_brightness"
    /\ call.arg = FloatArg(5000)
    /\ raised = "none"

\* C15 as stated: set_brightness with the float 50.0 results in a brightness
\* of 100 percent.
C15_FiftyIsHundred ==
    FiftyPointZero => (retval = IntArg(100) /\ BrightnessFrame = <<78, 27, 85>>)

\* C15, amended: set_brightness with the float 50.0 results in a brightness of
\* 50 percent, the float truncated to an integer percent.
C15_FiftyIsFifty ==
    FiftyPointZero => (retval = IntArg(50) /\ BrightnessFrame = <<78, 14, 85>>)

\* set_brightness(50.0) on group 1 of a client that repeats
C15_Witness ==
    /\ FiftyPointZero
    /\ call.group = 1
    /\ call.repeat_commands = MaxRepeat
    /\ retval = IntArg(50)

\* the call transmitted what r would transmit, and ended as r would end
SameAs(r) == sent = Frames(r.cmds) /\ raised = r.raised

\* C16: set_color with RGB(0,0,0) transmits exactly the frames of off on the
\* same target, and set_color with RGB(255,255,255) or "white" exactly the
\* frames of white on the same target; neither transmits a color frame (0x40).
C16_BlackWhiteRouting ==
    (Finished /\ call.op = "set_color") =>
        /\ call.arg = RgbArg(0, 0, 0) =>
               SameAs(off(0, call.group, call.repeat_commands))
        /\ call.arg \in { RgbArg(255, 255, 255), NameArg("white") } =>
               SameAs(white(0, call.group, call.repeat_commands))
        /\ call.arg \in { RgbArg(0, 0, 0), RgbArg(255, 255, 255), NameArg("white") } =>
               \A i \in 1 .. Len(sent) : sent[i][1] # 64

\* set_color(RGB(255,255,255), 1) on an RGBW group of a client that repeats
C16_Witness ==
    /\ Finished
    /\ call.op = "set_color"
    /\ call.arg = RgbArg(255, 255, 255)
    /\ call.group = 1
    /\ Addressed("rgbw")
    /\ call.repeat_commands = MaxRepeat
    /\ Count(<<197, 0, 85>>) = MaxRepeat

\* the color argument of the call is an integer 0..255 or a palette name
PlainColorArg ==
    /\ call.op = "set_color"
    /\ \/ call.arg.kind = "int" /\ call.arg.val \in 0 .. 255
       \/ call.arg.kind = "name" /\ call.arg.name \in Palette

\* C17: set_color with an integer outside 0..255, or with a name that is
\* neither "white" nor a palette color, raises before any frame is
\* transmitted, whatever the group and its bulb type; an integer 0..255 or a
\* palette name never raises on a valid target.
C17_InvalidColorRaises ==
    Finished =>
        /\ InvalidColorArg => (raised = "InvalidColor" /\ sent = << >>)
        /\ (PlainColorArg /\ ValidTarget) => raised = "none"

\* set_color(256) on group 1 of a client that repeats
C17_Witness ==
    /\ Finished
    /\ call.op = "set_color"
    /\ call.arg = IntArg(256)
    /\ call.group = 1
    /\ call.repeat_commands = MaxRepeat
    /\ raised = "InvalidColor"
    /\ sent = << >>

\* the constructor was the call made last
Constructing == call.op = "__init__"

\* repeat_commands of 0 is stored as 1, any other accepted value as given, and
\* a constructed client has repeat_commands >= 1 whatever was called on it
RepeatAtLeastOne ==
    /\ (Constructing /\ raised = "none") =>
           repeat_commands[0] = IF kwargs.repeat_commands = 0
                                THEN 1 ELSE kwargs.repeat_commands
    /\ pc # "new" => repeat_commands[0] >= 1

\* port, repeat_commands or pause_between_commands is one the claim rejects
BadNumbers ==
    \/ kwargs.port < 1 \/ kwargs.port > 65535
    \/ kwargs.repeat_commands < 0
    \/ kwargs.pause_between_commands < 0

\* C18 as stated: constructing fails exactly when port is outside 1..65535,
\* repeat_commands is negative or pause_between_commands is negative;
\* repeat_commands = 0 is stored as 1, and repeat_commands >= 1 holds for
\* every constructed client after any sequence of operations.
C18_ConstructorChecks ==
    /\ Constructing => (raised # "none" <=> BadNumbers)
    /\ RepeatAtLeastOne

\* C18, amended: constructing fails also when one of group_1 .. group_4 is a
\* bulb type other than "rgbw" and "white", and in no other case.
C18_ConstructorChecksAmended ==
    /\ Constructing =>
           (raised # "none" <=>
                (BadNumbers \/ \E g \in Groups : kwargs.groups[g] \notin BulbTypes))
    /\ RepeatAtLeastOne

\* a client built with repeat_commands = 0, after a batch_run that returned
C18_Witness ==
    /\ Finished
    /\ call.op = "batch_run"
    /\ raised = "none"
    /\ Len(sent) > 0
    /\ kwargs.repeat_commands = 0
    /\ repeat_commands[0] = 1

\* a step of set_group_type on client 0 does what the claim says
SetGroupTypeStep ==
    call'.op = "set_group_type" =>
        IF call'.arg.name \notin BulbTypes
        THEN /\ raised' = "InvalidBulbType"
             /\ group' = group
             /\ has_white' = has_white
             /\ has_rgbw' = has_rgbw
        ELSE /\ raised' = "none"
             /\ DOMAIN group'[0] = (DOMAIN group[0]) \cup {call'.group}
             /\ group'[0][call'.group] = call'.arg.name
             /\ \A k \in (DOMAIN group[0]) \ {call'.group} : group'[0][k] = group[0][k]

\* C19: set_group_type with a bulb type other than "rgbw" and "white" raises
\* the invalid-bulb-type error and leaves the group types and both has_ flags
\* as they were; with a valid type it changes the entry of the named group
\* and no other.
C19_SetGroupType == [][SetGroupTypeStep]_vars

\* set_group_type(2, "asdf") on the combined setup
C19_Witness ==
    /\ call.op = "set_group_type"
    /\ call.group = 2
    /\ call.arg = NameArg("asdf")
    /\ raised = "InvalidBulbType"
    /\ group[0] = << "rgbw", "white", "rgbw", "white" >>
    /\ has_white[0] /\ has_rgbw[0]

\* C20: execute with a controller index outside 0..N-1, negative ones
\* included, fails with the index error, dispatches to no controller and
\* transmits nothing; with an index in 0..N-1 it dispatches to the controller
\* at that position.
C20_IndexChecked ==
    (call.pool /\ call.op # "none") =>
        IF call.index \in 0 .. (NumControllers - 1)
        THEN call.ctrl = call.index /\ raised # "IndexError"
        ELSE /\ raised = "IndexError"
             /\ call.ctrl = None
             /\ sent = << >>
             /\ pc = "idle"

(***************************************************************************)
(* C21 .. C25.                                                             *)
(***************************************************************************)
\* the relative-step operations of white bulbs
StepOps == {"brightness_up", "brightness_down", "cooler", "warmer"}

\* C21: brightness_up, brightness_down, cooler or warmer on a target whose
\* bulbs are configured as RGBW transmits no frame addressed to RGBW bulbs.
C21_StepLeavesRgbwAlone ==
    (Finished /\ raised = "none" /\ ValidTarget /\ call.op \in StepOps
       /\ Addressed("rgbw")) =>
        \A i \in 1 .. Len(sent) : sent[i][1] \notin RgbwOpcodes

\* the step frame of the call, from the white table
StepFrame == Encode(WHITE_COMMANDS[call.op])

\* C24: for every repeat_commands = n >= 1, one call to brightness_up,
\* brightness_down, warmer or cooler on a target configured as white
\* transmits the step frame exactly n times.
C24_StepRepeated ==
    (Finished /\ raised = "none" /\ ValidTarget /\ call.op \in StepOps
       /\ Addressed("white")) =>
        Count(StepFrame) = call.repeat_commands

\* cooler on a white group of a client that repeats: the frame 3f 00 55 went
\* out once per repeat, between the on frames
C24_Witness ==
    /\ Finished
    /\ raised = "none"
    /\ call.op = "cooler"
    /\ call.group = 1
    /\ Addressed("white")
    /\ call.repeat_commands = MaxRepeat
    /\ MaxRepeat > 1
    /\ Count(<<63, 0, 85>>) = MaxRepeat
    /\ Len(sent) > MaxRepeat

\* the off and the nightmode frame of the target for bulb type t
OffFrameOf(t) ==
    IF AllTarget
    THEN Encode(IF t = "white" THEN <<57>> ELSE <<65>>)
    ELSE Encode((IF t = "white" THEN WHITE_GROUP_X_OFF ELSE RGBW_GROUP_X_OFF)[call.group])

NightFrameOf(t) ==
    IF AllTarget
    THEN Encode(IF t = "white" THEN <<185>> ELSE <<193>>)
    ELSE Encode((IF t = "white" THEN WHITE_GROUP_X_NIGHTMODE
                 ELSE RGBW_GROUP_X_NIGHTMODE)[call.group])

\* every on frame of the tables
AnyOnFrames ==
    { Encode(<<53>>), Encode(<<66>>) }
        \cup { Encode(t[g]) : t \in { WHITE_GROUP_X_ON, RGBW_GROUP_X_ON }, g \in Groups }

\* the bulb types the call's target includes
AddressedTypes == { t \in BulbTypes : Addressed(t) }

\* C25: one call to nightmode on a valid target first transmits the target's
\* off frame repeat_commands times, then the nightmode frame, and no on frame:
\* every nightmode frame comes after the off frames of the same target.
C25_NightmodeAfterOff ==
    (Finished /\ raised = "none" /\ ValidTarget /\ call.op = "nightmode") =>
        LET k == call.repeat_commands * Cardinality(AddressedTypes)
        IN  /\ Len(sent) = k + Cardinality(AddressedTypes)
            /\ \A t \in AddressedTypes :
                   /\ Cardinality({ i \in 1 .. k : sent[i] = OffFrameOf(t) })
                          = call.repeat_commands
                   /\ Cardinality({ i \in (k + 1) .. Len(sent) : sent[i] = NightFrameOf(t) })
                          = 1
            /\ \A i \in 1 .. Len(sent) : sent[i] \notin AnyOnFrames

\* nightmode for all groups of the combined setup with the largest
\* repeat_commands: the off frames of both types, then both nightmode frames
C25_Witness ==
    /\ Finished
    /\ raised = "none"
    /\ call.op = "nightmode"
    /\ call.group = None
    /\ AddressedTypes = BulbTypes
    /\ call.repeat_commands = MaxRepeat
    /\ Len(sent) = 2 * MaxRepeat + 2
    /\ sent[1] = <<57, 0, 85>>
    /\ sent[2 * MaxRepeat] = <<65, 0, 85>>
    /\ sent[2 * MaxRepeat + 1] = <<193, 0, 85>>
    /\ sent[2 * MaxRepeat + 2] = <<185, 0, 85>>

\* C23: every socket opened by _send_command is closed before _send_command
\* returns or raises, whether the send succeeds or fails: whenever no call is
\* running, no socket is open.
C23_SocketsClosed == pc = "idle" => open_sockets = 0

\* two frames sent one after the other are less than a pause apart
Unpaced == nsent >= 2 /\ sent_at - prev_sent_at < pause_between_commands[0]

\* C22: when the calls of the two threads on the same client (or the same
\* pool) are serialized, no two frames go out less than pause_between_commands
\* apart; without serialization a state is reachable where both threads saw
\* that enough time had passed and their frames are closer than that
\* (BothSawPauseOver).
C22_SerializedPaced == serialized => ~Unpaced

\* both threads, on the same client, have read the clock, found the pause
\* over and sent without sleeping, and the two frames are too close
BothSawPauseOver ==
    /\ ~serialized
    /\ ~pooled
    /\ Unpaced
    /\ \A t \in Threads : th[t].pc = "check" /\ ~th[t].slept
    /\ prev_sent_at >= Epoch

\* serialized calls on one client are paced, whether they return or raise
SerializedClientPaced == (serialized /\ ~pooled) => ~Unpaced

\* serialized calls on one pool are paced as long as none has raised
SerializedPoolPaced == (serialized /\ pooled /\ raised = "none") => ~Unpaced

====
